---- MODULE Spec2Model ----
(***************************************************************************)
(* The python core plugin (src/plugins/core/python.rs): version listing,   *)
(* the precompiled and the source-build install, virtualenv resolution and *)
(* exec_env.  Every handler is a set-valued operator over a "run": the     *)
(* record of the files it touches, the events it emits and what it         *)
(* returns.  A call of an external collaborator (git, HTTP, a subprocess,  *)
(* a file operation) yields two runs, one where it succeeded and one where *)
(* it failed, so a handler denotes the set of its possible executions.     *)
(***************************************************************************)
EXTENDS Integers, Sequences, FiniteSets, TLC

VARIABLES
    settings,               \* Settings: the flags the plugin reads
    env,                    \* env::MISE_PYTHON_* of the process
    pyenv,                  \* python_build_path(): "absent", "cloned", "updated"
    install,                \* tv.install_path(): what it holds
    download,               \* tv.download_path(): the names it holds
    venvs,                  \* the virtualenv directories that exist
    precompiled_cache,      \* PythonPlugin.precompiled_cache
    remote_version_cache,   \* CorePlugin.remote_version_cache
    clock,                  \* time, in units of the cache's freshness
    last,                   \* the last call: its inputs, the state before, the result
    readers                 \* concurrent reads of the catalog: where each stands

vars == <<settings, env, pyenv, install, download, venvs,
          precompiled_cache, remote_version_cache, clock, last, readers>>

----------------------------------------------------------------------------
\* Bounds of the model.

\* Longest precompiled feed (lines) a fetch returns.
MaxFeed == 3

\* Longest output (lines) of `python-build --definitions`.
MaxDefs == 3

\* The clock stops here.
MaxClock == 3

\* MISE_FETCH_REMOTE_VERSIONS_CACHE, in clock units.
FreshDuration == 2

----------------------------------------------------------------------------
\* Values.

None == << >>

Some(x) == <<x>>

Versions == {"3.11.4", "3.12.0"}

RefVersion == "ref:main"

\* ToolVersion: the version string, the kind of request, opts["virtualenv"].
ToolVersions ==
    { [version |-> v,
       request |-> IF v = RefVersion THEN "Ref" ELSE "Version",
       virtualenv |-> o] :
      v \in Versions \cup {RefVersion},
      o \in {None, Some(<<".venv">>), Some(<<"/", "venvs", "a">>), Some(<<"~", "venv">>)} }

\* Config: project_root.
Configs == { [project_root |-> p] : p \in {None, Some(<<"/", "proj">>)} }

SettingsValues ==
    [all_compile : BOOLEAN, python_compile : BOOLEAN, experimental : BOOLEAN,
     python_venv_auto_create : BOOLEAN, verbose : BOOLEAN]

\* MISE_PYTHON_PATCH_URL, MISE_PYTHON_PATCHES_DIRECTORY (with the versions that
\* have a <version>.patch in it), MISE_PYTHON_DEFAULT_PACKAGES_FILE exists.
EnvValues ==
    [patch_url : {None, Some("https://patches/p.patch")},
     patches_dir : {None, Some({}), Some({"3.11.4"})},
     default_packages_file : BOOLEAN]

NoCache == [present |-> FALSE, value |-> << >>, at |-> 0]

InstallAbsent == [kind |-> "absent", from |-> None, python_link |-> FALSE]

InstallOld == [kind |-> "old", from |-> None, python_link |-> TRUE]

----------------------------------------------------------------------------
\* Runs.

Emit(r, e) == [r EXCEPT !.log = Append(@, e)]

Fail(r, e) == [r EXCEPT !.ok = FALSE, !.err = e, !.failed = @ \cup {e}]

Ret(r, v) == [r EXCEPT !.val = v]

\* An external call: it is made (and logged), then succeeds or fails.  failed
\* keeps the calls that failed, also those whose error the caller only logs.
Attempt(r, step) == { Emit(r, step), Fail(Emit(r, step), step) }

Has(log, e) == \E i \in 1..Len(log) : log[i] = e

\* The run a handler starts from: the state as it is, nothing done yet.
NewRun ==
    [pyenv |-> pyenv, install |-> install, download |-> download, venvs |-> venvs,
     precompiled_cache |-> precompiled_cache,
     remote_version_cache |-> remote_version_cache,
     ok |-> TRUE, err |-> "", val |-> << >>, log |-> << >>,
     failed |-> {}, raw |-> None, strategy |-> "none", cmd |-> None, url |-> None]

----------------------------------------------------------------------------
\* Paths.

is_absolute(p) == Len(p) > 0 /\ p[1] = "/"

\* PathBuf::join: an absolute argument replaces the base.
join(base, p) == IF is_absolute(p) THEN p ELSE base \o p

HomeDir == <<"/", "home">>

\* file::replace_path: a leading ~ becomes the home directory.
replace_path(p) == IF Len(p) > 0 /\ p[1] = "~" THEN HomeDir \o Tail(p) ELSE p

----------------------------------------------------------------------------
\* The build utility's working copy.

\* Git::clone into python_build_path().
git_clone(r) ==
    { IF x.ok THEN [x EXCEPT !.pyenv = "cloned"] ELSE x : x \in Attempt(r, "git clone") }

\* Git::update of python_build_path().
git_update(r) ==
    { IF x.ok THEN [x EXCEPT !.pyenv = "updated"] ELSE x : x \in Attempt(r, "git update") }

\* CorePlugin::run_fetch_task_with_timeout: the task's result, or a timeout error
\* in place of the result of a task that would have succeeded too late.
run_fetch_task_with_timeout(R) ==
    R \cup { Fail([x EXCEPT !.val = << >>, !.raw = None], "timeout") :
             x \in { y \in R : y.ok } }

install_python_build(r) ==
    IF r.pyenv # "absent" THEN {r}
    ELSE UNION { IF x.ok THEN git_clone(x) ELSE {x} :
                 x \in Attempt(r, "create_dir_all") }

update_python_build(r) ==
    run_fetch_task_with_timeout(git_update(r))

install_or_update_python_build(r) ==
    IF r.pyenv # "absent" THEN update_python_build(r) ELSE install_python_build(r)

----------------------------------------------------------------------------
\* The precompiled catalog.

\* arch() and os() of the build: the platform triple a feed line must contain.
arch == "x86_64_v3"

os == "unknown-linux-gnu"

\* A line of the feed, by the pieces the filter and the regex look at:
\* <head>-<version>+<tag>-<triple>..., e.g.
\* cpython-3.11.4+20230726-x86_64_v3-unknown-linux-gnu-install_only.tar.gz.
\* tag "" stands for a line with no +\d+ after the version.  The last line
\* is one the regex does not match.
FeedLines ==
    { [head |-> "cpython", version |-> "3.11.4", tag |-> "20230726", triple |-> <<arch, os>>],
      [head |-> "cpython", version |-> "3.11.4", tag |-> "20230826", triple |-> <<arch, os>>],
      [head |-> "cpython", version |-> "3.12.0", tag |-> "20231002", triple |-> <<arch, os>>],
      [head |-> "cpython", version |-> "3.12.0", tag |-> "20231002", triple |-> <<"aarch64", "apple-darwin">>],
      [head |-> "pypy", version |-> "3.12.0", tag |-> "", triple |-> <<arch, os>>] }

RECURSIVE SeqsUpTo(_, _)
\* The sequences over S of length at most n.
SeqsUpTo(S, n) ==
    IF n = 0 THEN { << >> }
    ELSE LET shorter == SeqsUpTo(S, n - 1)
         IN  shorter \cup { Append(q, x) : q \in shorter, x \in S }

Feeds == SeqsUpTo(FeedLines, MaxFeed)

\* v.contains("{arch}-{os}")
contains_platform(line) == line.triple = <<arch, os>>

\* regex ^cpython-(\d+\.\d+\.\d+)\+(\d+).* matches the line
captures(line) ==
    line.head = "cpython" /\ line.version \in Versions /\ line.tag # ""

RECURSIVE parse_feed(_)
\* lines().filter(..).flat_map(..).collect_vec(): (version, tag, whole match)
parse_feed(raw) ==
    IF raw = << >> THEN << >>
    ELSE LET line == Head(raw)
             rest == parse_feed(Tail(raw))
         IN  IF contains_platform(line) /\ captures(line)
             THEN << <<line.version, line.tag, line>> >> \o rest
             ELSE rest

\* CacheManager::is_fresh
is_fresh(c) == c.present /\ clock - c.at < FreshDuration

\* CacheManager::get_or_try_init: the fresh cached value, or the computed one,
\* stored when the computation succeeded.  C is the set of runs of the closure.
get_or_try_init(r, name, C) ==
    IF is_fresh(r[name]) THEN { Ret(r, r[name].value) }
    ELSE { IF x.ok
           THEN [x EXCEPT ![name] = [present |-> TRUE, value |-> x.val, at |-> clock]]
           ELSE x : x \in C }

\* HTTP_FETCH.get_text of the feed: any feed, or an error.
get_precompiled_feed(r) ==
    UNION { IF x.ok THEN { Ret(x, raw) : raw \in Feeds } ELSE {x} :
            x \in Attempt(r, "HTTP_FETCH.get_text") }

\* The feed fetched and parsed on every call and then stored: the closure run
\* before the cache is asked.
fetch_precompiled_always_refetch(r) ==
    { IF x.ok
      THEN [Ret(x, parse_feed(x.val))
               EXCEPT !.precompiled_cache =
                          [present |-> TRUE, value |-> parse_feed(x.val), at |-> clock]]
      ELSE x : x \in get_precompiled_feed(r) }

\* The closure handed to the cache (lines 112-130): the feed fetched and parsed.
precompiled_closure(r) ==
    { IF x.ok THEN Ret(x, parse_feed(x.val)) ELSE x : x \in get_precompiled_feed(r) }

fetch_precompiled_remote_versions(r) ==
    get_or_try_init(r, "precompiled_cache", precompiled_closure(r))

\* The selection with the tool's own compile flag forgotten.
should_install_precompiled_without_python_compile(s) ==
    ~s.all_compile /\ s.experimental

should_install_precompiled(s) ==
    ~s.all_compile /\ ~s.python_compile /\ s.experimental

----------------------------------------------------------------------------
\* Installing.

\* The smoke test left out.
test_python_not_run(r) == {r}

\* The smoke test run a second time when it failed.
test_python_retry(r) ==
    IF ~r.ok THEN {r}
    ELSE UNION { IF x.ok THEN {x}
                 ELSE Attempt([x EXCEPT !.ok = TRUE, !.err = ""], "python --version") :
                 x \in Attempt(r, "python --version") }

\* CmdLineRunner of bin/python --version in the install path.
test_python(r) ==
    IF ~r.ok THEN {r} ELSE Attempt(r, "python --version")

RECURSIVE find_first(_, _)
\* iter().find(..): the first entry of that version.
find_first(entries, version) ==
    IF entries = << >> THEN None
    ELSE IF Head(entries)[1] = version THEN Some(Head(entries))
    ELSE find_first(Tail(entries), version)

RECURSIVE rev_find(_, _)
\* iter().rev().find(|(v, _, _)| version == v): the last entry of that version.
rev_find(entries, version) ==
    IF entries = << >> THEN None
    ELSE LET e == entries[Len(entries)]
         IN  IF e[1] = version THEN Some(e)
             ELSE rev_find(SubSeq(entries, 1, Len(entries) - 1), version)

\* The URL of the release asset, by the two pieces the template is filled with.
release_url(tag, filename) == <<"indygreg/python-build-standalone", tag, filename>>

\* The install path removed first, whatever became of the download.
remove_install_before_extraction(u) ==
    LET v == [u EXCEPT !.install = InstallAbsent]
    IN  IF ~v.ok THEN {v} ELSE Attempt(v, "remove_all")

\* file::remove_all(&install)?, reached when the steps before it succeeded.
remove_install(u) ==
    IF ~u.ok THEN {u}
    ELSE { IF x.ok THEN [x EXCEPT !.install = InstallAbsent] ELSE x :
           x \in Attempt(u, "remove_all") }

\* From the selection of the artifact to the smoke test (lines 139-168).
install_selected(r, tv) ==
    IF ~r.ok THEN {r}
    ELSE
    LET precompile_info == rev_find(r.val, tv.version)
    IN  IF precompile_info = None
        THEN { Fail(r, "no precompiled version found") }
        ELSE
        LET tag      == precompile_info[1][2]
            filename == precompile_info[1][3]
            r0 == [r EXCEPT !.url = Some(release_url(tag, filename))]
            Downloaded ==
                { IF x.ok THEN [x EXCEPT !.download = @ \cup {"tarball"}] ELSE x :
                  x \in Attempt(r0, "download_file") }
            Untarred ==
                UNION { IF ~d.ok THEN {d}
                        ELSE { IF x.ok THEN [x EXCEPT !.download = @ \cup {"python"}] ELSE x :
                               x \in Attempt(d, "untar") } : d \in Downloaded }
            Removed == UNION { remove_install(u) : u \in Untarred }
            Renamed ==
                UNION { IF ~m.ok THEN {m}
                        ELSE { IF x.ok
                               THEN [x EXCEPT !.download = @ \ {"python"},
                                              !.install = [kind |-> "precompiled",
                                                           from |-> Some(filename),
                                                           python_link |-> FALSE]]
                               ELSE x :
                               x \in Attempt(m, "rename") } : m \in Removed }
            Linked ==
                UNION { IF ~n.ok THEN {n}
                        ELSE { IF x.ok THEN [x EXCEPT !.install.python_link = TRUE] ELSE x :
                               x \in Attempt(n, "make_symlink") } : n \in Renamed }
        IN  UNION { test_python(l) : l \in Linked }

install_precompiled(r, tv) ==
    LET r0 == Emit(r, "warn: installing precompiled python")
    IN  UNION { install_selected(c, tv) : c \in fetch_precompiled_remote_versions(r0) }

\* Settings::try_get: the settings, or an error.
try_get_settings(r) ==
    IF ~r.ok THEN {r} ELSE Attempt(r, "Settings::try_get")

\* python_path(tv): bin/python of the install path is run with -m venv <path>.
create_venv(r, virtualenv) ==
    { IF x.ok THEN [x EXCEPT !.venvs = @ \cup {virtualenv}] ELSE x :
      x \in Attempt(r, "python -m venv") }

\* get_virtualenv creating the missing directory whatever the setting says.
get_virtualenv_always_create(r, config, tv) ==
    IF tv.virtualenv = None THEN { Ret(r, None) }
    ELSE UNION {
        IF ~s.ok THEN {s}
        ELSE
        LET replaced == replace_path(tv.virtualenv[1])
            virtualenv ==
                IF ~is_absolute(replaced) /\ config.project_root # None
                THEN join(config.project_root[1], replaced)
                ELSE replaced
        IN  IF virtualenv \notin s.venvs
            THEN { IF x.ok THEN Ret(x, Some(virtualenv)) ELSE x :
                   x \in create_venv(Emit(s, "info: setting up virtualenv"), virtualenv) }
            ELSE { Ret(s, Some(virtualenv)) } :
        s \in try_get_settings(r) }

\* The result is None or Some(path) in val.  (pr only routes the progress output.)
get_virtualenv(r, config, tv) ==
    IF tv.virtualenv = None THEN { Ret(r, None) }
    ELSE UNION {
        IF ~s.ok THEN {s}
        ELSE
        LET s1 == IF settings.experimental THEN s
                  ELSE Emit(s, "warn: please enable experimental mode")
            replaced == replace_path(tv.virtualenv[1])
            virtualenv ==
                IF ~is_absolute(replaced) /\ config.project_root # None
                THEN join(config.project_root[1], replaced)
                ELSE replaced
        IN  IF virtualenv \notin s1.venvs
            THEN IF settings.python_venv_auto_create
                 THEN { IF x.ok THEN Ret(x, Some(virtualenv)) ELSE x :
                        x \in create_venv(Emit(s1, "info: setting up virtualenv"), virtualenv) }
                 ELSE { Ret(Emit(s1, "warn: no venv found"), None) }
            ELSE { Ret(s1, Some(virtualenv)) } :
        s \in try_get_settings(r) }

install_default_packages(r) ==
    IF ~r.ok THEN {r}
    ELSE IF ~env.default_packages_file THEN {r}
    ELSE Attempt(r, "pip install")

\* CmdLineRunner::arg and ::stdin_string on the command being built.
arg(cmd, a) == [cmd EXCEPT !.args = Append(@, a)]

stdin_string(cmd, text) == [cmd EXCEPT !.stdin = Some(text)]

\* The patch directory with a missing <version>.patch treated as an error.
patch_from_directory_missing_file_fatal(u, tv) ==
    IF ~u.ok \/ env.patches_dir = None THEN {u}
    ELSE IF tv.version \in env.patches_dir[1]
    THEN { IF x.ok
           THEN [x EXCEPT !.cmd = Some(stdin_string(arg(@[1], "--patch"), "patch from file"))]
           ELSE x : x \in Attempt(u, "read_to_string patch") }
    ELSE { Fail(u, "patch file not found") }

\* if let Some(patches_dir) = &*env::MISE_PYTHON_PATCHES_DIRECTORY (lines 310-320):
\* the command of run u gets --patch and the file's text on its stdin.
patch_from_directory(u, tv) ==
    IF ~u.ok \/ env.patches_dir = None THEN {u}
    ELSE IF tv.version \in env.patches_dir[1]
    THEN { IF x.ok
           THEN [x EXCEPT !.cmd = Some(stdin_string(arg(@[1], "--patch"), "patch from file"))]
           ELSE x : x \in Attempt(u, "read_to_string patch") }
    ELSE { Emit(u, "warn: patch file not found") }

\* Lines 291-327: the source build, from the working copy to the default packages.
install_from_source(r, config, tv) ==
    UNION {
        IF ~b.ok THEN {b}
        ELSE IF tv.request = "Ref"
        THEN { Fail(b, "Ref versions not supported for python") }
        ELSE
        LET cmd0 == [args |-> <<tv.version, "install_path">>, stdin |-> None]
            cmd1 == IF settings.verbose THEN arg(cmd0, "--verbose") ELSE cmd0
            \* if let Some(patch_url)
            WithUrl ==
                IF env.patch_url # None
                THEN { IF x.ok
                       THEN [x EXCEPT !.cmd = Some(stdin_string(arg(cmd1, "--patch"), "patch from url"))]
                       ELSE x : x \in Attempt(b, "HTTP.get_text patch") }
                ELSE { [b EXCEPT !.cmd = Some(cmd1)] }
            WithDir == UNION { patch_from_directory(u, tv) : u \in WithUrl }
            Built ==
                UNION {
                    IF ~p.ok THEN {p}
                    ELSE { IF x.ok
                           THEN [x EXCEPT !.install = [kind |-> "built",
                                                       from |-> Some(tv.version),
                                                       python_link |-> TRUE]]
                           ELSE [x EXCEPT !.install = [kind |-> "partial",
                                                       from |-> None,
                                                       python_link |-> FALSE]] :
                           x \in Attempt(p, "python-build") } :
                    p \in WithDir }
            Tested == UNION { test_python(t) : t \in Built }
            \* if let Err(e) = self.get_virtualenv(..) { warn!(..) }
            Venv ==
                UNION {
                    IF ~t.ok THEN {t}
                    ELSE { IF x.ok THEN x
                           ELSE [Emit(x, "warn: failed to get virtualenv")
                                    EXCEPT !.ok = TRUE, !.err = ""] :
                           x \in get_virtualenv(t, config, tv) } :
                    t \in Tested }
        IN  UNION { install_default_packages(v) : v \in Venv } :
        b \in install_or_update_python_build(r) }

\* The working copy of the build utility prepared before the strategy is looked at.
install_version_impl_build_utility_first(r, config, tv) ==
    UNION {
        IF ~s.ok THEN {s}
        ELSE UNION {
            IF ~b.ok THEN {b}
            ELSE IF should_install_precompiled(settings)
            THEN install_precompiled(
                     Emit([b EXCEPT !.strategy = "Precompiled"], "strategy"), tv)
            ELSE install_from_source(
                     Emit([b EXCEPT !.strategy = "SourceBuild"], "strategy"), config, tv) :
            b \in install_or_update_python_build(s) } :
        s \in try_get_settings(r) }

install_version_impl(r, config, tv) ==
    UNION {
        IF ~s.ok THEN {s}
        ELSE IF should_install_precompiled(settings)
        THEN install_precompiled(
                 Emit([s EXCEPT !.strategy = "Precompiled"], "strategy"), tv)
        ELSE install_from_source(
                 Emit([s EXCEPT !.strategy = "SourceBuild"], "strategy"), config, tv) :
        s \in try_get_settings(r) }

\* exec_env with MISE_ADD_PATH set to the virtualenv itself, not its bin.
exec_env_path_without_bin(r, config, tv) ==
    { IF ~x.ok
      THEN [Emit(x, "warn: failed to get virtualenv") EXCEPT !.ok = TRUE, !.err = "", !.val = {}]
      ELSE IF x.val = None THEN Ret(x, {})
      ELSE Ret(x, { <<"VIRTUAL_ENV", x.val[1]>>, <<"MISE_ADD_PATH", x.val[1]>> }) :
      x \in get_virtualenv(r, config, tv) }

\* exec_env returning the error of get_virtualenv.
exec_env_propagating_error(r, config, tv) ==
    { IF ~x.ok THEN x
      ELSE IF x.val = None THEN Ret(x, {})
      ELSE Ret(x, { <<"VIRTUAL_ENV", x.val[1]>>,
                    <<"MISE_ADD_PATH", join(x.val[1], <<"bin">>)>> }) :
      x \in get_virtualenv(r, config, tv) }

exec_env(r, config, tv) ==
    { IF ~x.ok
      THEN [Emit(x, "warn: failed to get virtualenv") EXCEPT !.ok = TRUE, !.err = "", !.val = {}]
      ELSE IF x.val = None THEN Ret(x, {})
      ELSE Ret(x, { <<"VIRTUAL_ENV", x.val[1]>>,
                    <<"MISE_ADD_PATH", join(x.val[1], <<"bin">>)>> }) :
      x \in get_virtualenv(r, config, tv) }

----------------------------------------------------------------------------
\* Listing the remote versions.

Digits == {"0", "1", "2", "3", "4", "5", "6", "7", "8", "9"}

\* A line of `python-build --definitions`, as its characters.
DefLines ==
    { <<"3", ".", "9">>, <<"3", ".", "1", "0">>, <<"p", "y", "p", "y">>,
      <<"a", "3">>, << >> }

\* output.split('\n'): at least one line, possibly empty.
Definitions == SeqsUpTo(DefLines, MaxDefs) \ { << >> }

\* regex!(r"^\d+").is_match(v)
is_match(v) == Len(v) > 0 /\ v[1] \in Digits

\* Ord for bool: false < true.
bool_le(a, b) == ~a \/ b

RECURSIVE insert_by_key(_, _)
\* v placed behind every element whose key is not greater than its own.
insert_by_key(sorted, v) ==
    IF sorted = << >> THEN <<v>>
    ELSE LET lst == sorted[Len(sorted)]
         IN  IF bool_le(is_match(lst), is_match(v))
             THEN Append(sorted, v)
             ELSE Append(insert_by_key(SubSeq(sorted, 1, Len(sorted) - 1), v), lst)

RECURSIVE sorted_by_cached_key(_)
\* The stable sort of the lines by the key is_match.
sorted_by_cached_key(lines) ==
    IF lines = << >> THEN << >>
    ELSE insert_by_key(sorted_by_cached_key(SubSeq(lines, 1, Len(lines) - 1)),
                       lines[Len(lines)])

RECURSIVE dedup(_)
\* Vec::dedup: only a repeat that directly follows its original is removed.
dedup(xs) ==
    IF Len(xs) < 2 THEN xs
    ELSE LET init == dedup(SubSeq(xs, 1, Len(xs) - 1))
             x    == xs[Len(xs)]
         IN  IF init[Len(init)] = x THEN init ELSE Append(init, x)

RECURSIVE unique(_)
\* Itertools::unique: each element's first occurrence, in order.
unique(xs) ==
    IF xs = << >> THEN << >>
    ELSE LET init == unique(SubSeq(xs, 1, Len(xs) - 1))
             x    == xs[Len(xs)]
         IN  IF \E i \in 1..Len(init) : init[i] = x THEN init ELSE Append(init, x)

\* .map(|(v, _, _)| v.to_string())
version_column(entries) == [i \in 1..Len(entries) |-> entries[i][1]]

\* The list the host serves: not in the order the source-build sort gives.
ShortcutVersions == << <<"3", ".", "1", "0">>, <<"p", "y", "p", "y">>, <<"3", ".", "9">> >>

\* CorePlugin::fetch_remote_versions_from_mise: Ok(Some(list)), Ok(None) or Err.
fetch_remote_versions_from_mise(r) ==
    { IF x.ok THEN Ret(x, v) ELSE x :
      x \in Attempt(r, "fetch_remote_versions_from_mise"),
      v \in { None, Some(ShortcutVersions) } }

\* cmd!(python_build_bin, "--definitions").read(), split and sorted.
read_definitions(r) ==
    IF ~r.ok THEN {r}
    ELSE UNION { IF x.ok
                 THEN { [Ret(x, sorted_by_cached_key(out)) EXCEPT !.raw = Some(out)] :
                        out \in Definitions }
                 ELSE {x} :
                 x \in Attempt(r, "python-build --definitions") }

\* fetch_remote_versions returning the error of the shortcut fetch.
fetch_remote_versions_shortcut_error_fatal(r) ==
    IF should_install_precompiled(settings)
    THEN { IF x.ok THEN Ret(x, unique(version_column(x.val))) ELSE x :
           x \in fetch_precompiled_remote_versions(
                     Emit([r EXCEPT !.strategy = "Precompiled"], "strategy")) }
    ELSE UNION {
        IF m.ok /\ m.val # None THEN { Ret(m, m.val[1]) }
        ELSE IF ~m.ok THEN {m}
        ELSE UNION { run_fetch_task_with_timeout(read_definitions(b)) :
                     b \in install_or_update_python_build(m) } :
        m \in fetch_remote_versions_from_mise(
                  Emit([r EXCEPT !.strategy = "SourceBuild"], "strategy")) }

fetch_remote_versions(r) ==
    IF should_install_precompiled(settings)
    THEN { IF x.ok THEN Ret(x, unique(version_column(x.val))) ELSE x :
           x \in fetch_precompiled_remote_versions(
                     Emit([r EXCEPT !.strategy = "Precompiled"], "strategy")) }
    ELSE UNION {
        IF m.ok /\ m.val # None THEN { Ret(m, m.val[1]) }
        ELSE
        LET m1 == IF m.ok THEN m
                  ELSE [Emit(m, "warn: failed to fetch remote versions")
                           EXCEPT !.ok = TRUE, !.err = ""]
        IN  UNION { run_fetch_task_with_timeout(read_definitions(b)) :
                    b \in install_or_update_python_build(m1) } :
        m \in fetch_remote_versions_from_mise(
                  Emit([r EXCEPT !.strategy = "SourceBuild"], "strategy")) }

list_remote_versions(r) ==
    get_or_try_init(r, "remote_version_cache", fetch_remote_versions(r))

----------------------------------------------------------------------------
\* The state machine.

Before ==
    [pyenv |-> pyenv, install |-> install, download |-> download, venvs |-> venvs,
     precompiled_cache |-> precompiled_cache,
     remote_version_cache |-> remote_version_cache, clock |-> clock]

\* The state and the record of the call after run r of operation op.
Done(op, config, tv, r) ==
    /\ pyenv' = r.pyenv
    /\ install' = r.install
    /\ download' = r.download
    /\ venvs' = r.venvs
    /\ precompiled_cache' = r.precompiled_cache
    /\ remote_version_cache' = r.remote_version_cache
    /\ last' = [op |-> op, config |-> config, tv |-> tv, before |-> Before,
                ok |-> r.ok, err |-> r.err, val |-> IF r.ok THEN r.val ELSE << >>,
                log |-> r.log, failed |-> r.failed, raw |-> r.raw,
                strategy |-> r.strategy, cmd |-> r.cmd, url |-> r.url]
    /\ UNCHANGED <<settings, env, clock, readers>>

NoCall ==
    [op |-> "none", config |-> None, tv |-> None, before |-> None,
     ok |-> TRUE, err |-> "", val |-> << >>, log |-> << >>, failed |-> {},
     raw |-> None, strategy |-> "none", cmd |-> None, url |-> None]

\* Plugin::install_version_impl.  The InstallContext is owned by one install,
\* which runs from its start to success or failure: it is run once.
InstallVersion ==
    /\ last = NoCall
    /\ \E config \in Configs, tv \in ToolVersions :
           \E r \in install_version_impl(NewRun, config, tv) :
               Done("install_version_impl", config, tv, Ret(r, << >>))

\* Plugin::list_remote_versions.
ListRemoteVersions ==
    \E r \in list_remote_versions(NewRun) :
        Done("list_remote_versions", None, None, r)

FetchPrecompiledRemoteVersions ==
    \E r \in fetch_precompiled_remote_versions(NewRun) :
        Done("fetch_precompiled_remote_versions", None, None, r)

\* Plugin::exec_env.
ExecEnv ==
    \E config \in Configs, tv \in ToolVersions :
        \E r \in exec_env(NewRun, config, tv) :
            Done("exec_env", config, tv, r)

\* get_virtualenv, as exec_env and the install call it.
GetVirtualenv ==
    \E config \in Configs, tv \in ToolVersions :
        \E r \in get_virtualenv(NewRun, config, tv) :
            Done("get_virtualenv", config, tv, r)

\* Time passes.
Tick ==
    /\ clock < MaxClock
    /\ clock' = clock + 1
    /\ UNCHANGED <<settings, env, pyenv, install, download, venvs,
                   precompiled_cache, remote_version_cache, last, readers>>

\* The readers of the catalog that run at the same time.
Readers == {"r1", "r2"}

\* A reader: where it stands, its result (ok, val), the time stamp of the
\* catalog it got, whether it made the network request.
IdleReader == [pc |-> "idle", ok |-> TRUE, val |-> << >>, at |-> -1, requested |-> FALSE]

\* stored: the catalogs written completely so far.
NoReaders == [of |-> [p \in Readers |-> IdleReader], stored |-> {}]

\* The computation is entered by one reader at a time, whatever the others do.
may_compute_reentrant(rs, p) == TRUE

\* CacheManager::get_or_try_init is not re-entered: a reader computes only
\* while no other reader does.
may_compute(rs, p) ==
    \A q \in Readers \ {p} : rs.of[q].pc \notin {"computing", "fetched"}

\* get_or_try_init, entered: a fresh catalog is returned; otherwise the reader
\* computes, or waits for the reader that does.
BeginRead(p) ==
    /\ readers.of[p].pc = "idle"
    /\ readers' =
          IF is_fresh(precompiled_cache)
          THEN [readers EXCEPT !.of[p] = [@ EXCEPT !.pc = "done", !.ok = TRUE,
                                                   !.val = precompiled_cache.value,
                                                   !.at = precompiled_cache.at]]
          ELSE IF may_compute(readers, p)
          THEN [readers EXCEPT !.of[p].pc = "computing"]
          ELSE [readers EXCEPT !.of[p].pc = "waiting"]
    /\ UNCHANGED <<settings, env, pyenv, install, download, venvs,
                   precompiled_cache, remote_version_cache, clock, last>>

\* The closure runs: the network request, and the catalog written to a new file.
Request(p) ==
    /\ readers.of[p].pc = "computing"
    /\ \E x \in precompiled_closure(NewRun) :
          readers' =
              IF x.ok
              THEN [readers EXCEPT !.of[p] = [@ EXCEPT !.pc = "fetched", !.val = x.val,
                                                       !.requested = TRUE]]
              ELSE [readers EXCEPT !.of[p] = [@ EXCEPT !.pc = "done", !.ok = FALSE,
                                                       !.requested = TRUE]]
    /\ UNCHANGED <<settings, env, pyenv, install, download, venvs,
                   precompiled_cache, remote_version_cache, clock, last>>

\* The new file replaces the cache file in one step.
Store(p) ==
    /\ readers.of[p].pc = "fetched"
    /\ precompiled_cache' =
          [present |-> TRUE, value |-> readers.of[p].val, at |-> clock]
    /\ readers' = [readers EXCEPT !.of[p] = [@ EXCEPT !.pc = "done", !.at = clock],
                                  !.stored = @ \cup {readers.of[p].val}]
    /\ UNCHANGED <<settings, env, pyenv, install, download, venvs,
                   remote_version_cache, clock, last>>

\* A waiting reader goes on when the computation it waited for is over.
Resume(p) ==
    /\ readers.of[p].pc = "waiting"
    /\ may_compute(readers, p)
    /\ readers' = [readers EXCEPT !.of[p].pc = "idle"]
    /\ UNCHANGED <<settings, env, pyenv, install, download, venvs,
                   precompiled_cache, remote_version_cache, clock, last>>

NoEnv == [patch_url |-> None, patches_dir |-> None, default_packages_file |-> FALSE]

\* A catalog with two releases of one version, fetched at time 0.
CachedCatalog ==
    [present |-> TRUE,
     value |-> parse_feed(<<
         [head |-> "cpython", version |-> "3.11.4", tag |-> "20230726", triple |-> <<arch, os>>],
         [head |-> "cpython", version |-> "3.11.4", tag |-> "20230826", triple |-> <<arch, os>>] >>),
     at |-> 0]

NextInstall == InstallVersion

\* One source-build install, from every configuration that selects it and every
\* state of the files it uses.
InitSourceBuild ==
    /\ settings \in { s \in SettingsValues : ~should_install_precompiled(s) }
    /\ env \in EnvValues
    /\ pyenv \in {"absent", "cloned"}
    /\ install \in {InstallAbsent, InstallOld}
    /\ download = {}
    /\ venvs \in {{}, {<<"/", "proj", ".venv">>}}
    /\ precompiled_cache = NoCache
    /\ remote_version_cache = NoCache
    /\ clock = 0
    /\ last = NoCall
    /\ readers = NoReaders

SpecSourceBuild == InitSourceBuild /\ [][NextInstall]_vars

\* One precompiled install, with and without a cached catalog.
InitPrecompiled ==
    /\ settings \in { s \in SettingsValues :
                        should_install_precompiled(s) /\ ~s.python_venv_auto_create }
    /\ env = NoEnv
    /\ pyenv \in {"absent", "cloned"}
    /\ install \in {InstallAbsent, InstallOld}
    /\ download = {}
    /\ venvs = {}
    /\ precompiled_cache \in {NoCache, CachedCatalog}
    /\ remote_version_cache = NoCache
    /\ clock = 0
    /\ last = NoCall
    /\ readers = NoReaders

SpecPrecompiled == InitPrecompiled /\ [][NextInstall]_vars

\* Only MISE_PYTHON_DEFAULT_PACKAGES_FILE is there.
DefaultPackagesEnv == [NoEnv EXCEPT !.default_packages_file = TRUE]

\* One call, an install or a listing, under every setting.
InitStrategy ==
    /\ settings \in SettingsValues
    /\ env \in {NoEnv, DefaultPackagesEnv}
    /\ pyenv \in {"absent", "cloned"}
    /\ install = InstallAbsent
    /\ download = {}
    /\ venvs = {}
    /\ precompiled_cache = NoCache
    /\ remote_version_cache = NoCache
    /\ clock = 0
    /\ last = NoCall
    /\ readers = NoReaders

FirstListRemoteVersions ==
    /\ last = NoCall
    /\ ListRemoteVersions

NextStrategy ==
    \/ InstallVersion
    \/ FirstListRemoteVersions

SpecStrategy == InitStrategy /\ [][NextStrategy]_vars

\* Listings one after the other, under every choice of the strategy flags.
InitListing ==
    /\ settings \in { s \in SettingsValues : ~s.python_venv_auto_create /\ ~s.verbose }
    /\ env = NoEnv
    /\ pyenv \in {"absent", "cloned"}
    /\ install = InstallAbsent
    /\ download = {}
    /\ venvs = {}
    /\ precompiled_cache = NoCache
    /\ remote_version_cache = NoCache
    /\ clock = 0
    /\ last = NoCall
    /\ readers = NoReaders

NextListing == ListRemoteVersions

SpecListing == InitListing /\ [][NextListing]_vars

\* The precompiled catalog and its cache over time.
InitCatalog ==
    /\ settings \in { s \in SettingsValues :
                        /\ ~s.python_venv_auto_create /\ ~s.verbose
                        /\ ~s.all_compile /\ ~s.python_compile /\ s.experimental }
    /\ env = NoEnv
    /\ pyenv = "absent"
    /\ install = InstallAbsent
    /\ download = {}
    /\ venvs = {}
    /\ precompiled_cache = NoCache
    /\ remote_version_cache = NoCache
    /\ clock = 0
    /\ last = NoCall
    /\ readers = NoReaders

NextCatalog ==
    \/ FetchPrecompiledRemoteVersions
    \/ Tick

SpecCatalog == InitCatalog /\ [][NextCatalog]_vars

\* Two readers of the catalog at the same time, while time passes.
InitReaders ==
    /\ settings \in { s \in SettingsValues :
                        /\ ~s.python_venv_auto_create /\ ~s.verbose
                        /\ ~s.all_compile /\ ~s.python_compile /\ s.experimental }
    /\ env = NoEnv
    /\ pyenv = "absent"
    /\ install = InstallAbsent
    /\ download = {}
    /\ venvs = {}
    /\ precompiled_cache = NoCache
    /\ remote_version_cache = NoCache
    /\ clock = 0
    /\ last = NoCall
    /\ readers = NoReaders

NextReaders ==
    \/ \E p \in Readers : BeginRead(p)
    \/ \E p \in Readers : Request(p)
    \/ \E p \in Readers : Store(p)
    \/ \E p \in Readers : Resume(p)
    \/ Tick

SpecReaders == InitReaders /\ [][NextReaders]_vars

\* The virtualenv paths a request of ToolVersions can resolve to.
VenvPaths ==
    { <<".venv">>, <<"/", "proj", ".venv">>, <<"/", "venvs", "a">>, <<"/", "home", "venv">> }

\* exec_env, over the settings and the directories that exist.
InitEnv ==
    /\ settings \in { s \in SettingsValues : ~s.all_compile /\ ~s.python_compile /\ ~s.verbose }
    /\ env = NoEnv
    /\ pyenv = "absent"
    /\ install = InstallOld
    /\ download = {}
    /\ venvs \in SUBSET VenvPaths
    /\ precompiled_cache = NoCache
    /\ remote_version_cache = NoCache
    /\ clock = 0
    /\ last = NoCall
    /\ readers = NoReaders

NextEnv ==
    \/ ExecEnv
    \/ GetVirtualenv

SpecEnv == InitEnv /\ [][NextEnv]_vars

----------------------------------------------------------------------------
\* Properties.

Installed == last.op = "install_version_impl"

FilesUnchanged ==
    /\ pyenv = last.before.pyenv
    /\ install = last.before.install
    /\ download = last.before.download
    /\ venvs = last.before.venvs

\* C1: a source-build install of a symbolic reference fails with the
\* "references not supported" error and has changed no file: the working copy
\* of the build utility was neither cloned nor updated, the install path not
\* written.
C1_RefRejectedBeforeAnyMutation ==
    (Installed /\ last.strategy = "SourceBuild" /\ last.tv.request = "Ref")
        => /\ ~last.ok
           /\ last.err = "Ref versions not supported for python"
           /\ ~Has(last.log, "git clone")
           /\ ~Has(last.log, "git update")
           /\ FilesUnchanged

BuiltAndTested ==
    /\ Installed
    /\ last.strategy = "SourceBuild"
    /\ Has(last.log, "python-build")
    /\ Has(last.log, "python --version")
    /\ "python-build" \notin last.failed
    /\ "python --version" \notin last.failed

\* C2: a source-build install whose build and smoke test succeeded returns
\* success, whatever the virtualenv setup and the default-package install did.
C2_PostInstallFailuresAreWarnings ==
    BuiltAndTested => last.ok

UpdateFailed ==
    /\ last.before.pyenv # "absent"
    /\ Has(last.log, "git update")
    /\ \/ "git update" \in last.failed
       \/ "timeout" \in last.failed /\ ~Has(last.log, "python-build --definitions")

\* C3: when the update of the existing working copy fails or times out, a
\* source-build install of a concrete version goes on to run the build utility
\* and a source-build listing goes on to query its definitions.
C3_FailedUpdateDoesNotBlock ==
    /\ (Installed /\ last.tv.request = "Version" /\ UpdateFailed)
           => Has(last.log, "python-build")
    /\ (last.op = "list_remote_versions" /\ UpdateFailed)
           => Has(last.log, "python-build --definitions")

Listed == last.op = "list_remote_versions" /\ last.ok /\ last.raw # None

DigitLeading(lines) == SelectSeq(lines, LAMBDA v : is_match(v))

NotDigitLeading(lines) == SelectSeq(lines, LAMBDA v : ~is_match(v))

\* C4: the source-build listing is the digit-leading lines of the build
\* utility's output, in their order, followed by the other lines, in theirs.
C4_DigitLeadingFirst ==
    Listed => last.val = DigitLeading(last.raw[1]) \o NotDigitLeading(last.raw[1])

\* C5: an install and a listing (one that is not answered from its cache)
\* choose the strategy once, after only the read of the settings and before
\* any other step; it is Precompiled exactly for all_compile = false,
\* python_compile = false, experimental = true, and SourceBuild otherwise.
C5_StrategyFromFlags ==
    (last.op \in {"install_version_impl", "list_remote_versions"}
        /\ ~(last.op = "list_remote_versions" /\ last.log = << >>))
        => LET flags == <<settings.all_compile, settings.python_compile, settings.experimental>>
               made  == { i \in 1..Len(last.log) : last.log[i] = "strategy" }
           IN  /\ last.strategy = "none" => ~last.ok /\ last.log = <<"Settings::try_get">>
               /\ last.strategy # "none" =>
                    /\ last.strategy = IF flags = <<FALSE, FALSE, TRUE>>
                                       THEN "Precompiled" ELSE "SourceBuild"
                    /\ Cardinality(made) = 1
                    /\ \A i \in made : \A j \in 1..(i - 1) : last.log[j] = "Settings::try_get"
                    /\ Has(last.log, "python-build") => last.strategy = "SourceBuild"
                    /\ Has(last.log, "download_file") => last.strategy = "Precompiled"

\* C5: a precompiled install got as far as the download, under flags that
\* request the virtualenv auto-creation as well.
C5_Witness ==
    /\ Installed /\ last.strategy = "Precompiled" /\ Has(last.log, "download_file")
    /\ settings.python_venv_auto_create

Catalog == precompiled_cache.value

\* C6: a precompiled install that selects an artifact selects the last entry
\* of the catalog with the requested version and builds the URL from that
\* entry's tag and filename; it selects one whenever the catalog has the version.
C6_LastMatchWins ==
    (Installed /\ last.strategy = "Precompiled" /\ precompiled_cache.present
        /\ "HTTP_FETCH.get_text" \notin last.failed)
        => LET matches == { i \in 1..Len(Catalog) : Catalog[i][1] = last.tv.version }
           IN  IF matches = {}
               THEN last.url = None /\ last.err = "no precompiled version found"
               ELSE \E i \in matches :
                       /\ \A j \in matches : j <= i
                       /\ last.url = Some(release_url(Catalog[i][2], Catalog[i][3]))

\* C6: the catalog holds two releases of the requested version, with two tags.
C6_Witness ==
    /\ Installed /\ last.url # None
    /\ \E i, j \in 1..Len(Catalog) :
          /\ i < j
          /\ Catalog[i][1] = last.tv.version /\ Catalog[j][1] = last.tv.version
          /\ Catalog[i][2] # Catalog[j][2]
    /\ last.ok

FirstIndex(xs, x) == CHOOSE k \in 1..Len(xs) : xs[k] = x /\ \A m \in 1..(k - 1) : xs[m] # x

\* C7: in precompiled mode the listing holds no version twice; when it is
\* computed, it holds exactly the versions of the catalog, ordered by their
\* first occurrence in it.
C7_UniqueVersions ==
    (last.op = "list_remote_versions" /\ last.ok
        /\ <<settings.all_compile, settings.python_compile, settings.experimental>>
              = <<FALSE, FALSE, TRUE>>)
        => /\ \A i, j \in 1..Len(last.val) : i # j => last.val[i] # last.val[j]
           /\ Has(last.log, "strategy") =>
                LET column == version_column(Catalog)
                IN  /\ { last.val[i] : i \in 1..Len(last.val) }
                          = { column[k] : k \in 1..Len(column) }
                    /\ \A i, j \in 1..Len(last.val) :
                          i < j => FirstIndex(column, last.val[i]) < FirstIndex(column, last.val[j])

\* C7: a version has two releases in the catalog, with another version between.
C7_Witness ==
    /\ last.op = "list_remote_versions" /\ last.ok /\ Has(last.log, "strategy")
    /\ Len(Catalog) = 3 /\ Len(last.val) = 2
    /\ Catalog[1][1] = Catalog[3][1]

FreshBefore ==
    /\ last.before.precompiled_cache.present
    /\ last.before.clock - last.before.precompiled_cache.at < FreshDuration

\* C8: a read of the precompiled catalog inside the freshness window of a
\* successful fetch returns the cached list, makes no network request and
\* leaves the cache as it is; a fetch that failed caches nothing.
C8_FreshCatalogIsReused ==
    /\ (last.op \in {"fetch_precompiled_remote_versions", "list_remote_versions"}
          /\ FreshBefore)
          => /\ ~Has(last.log, "HTTP_FETCH.get_text")
             /\ precompiled_cache = last.before.precompiled_cache
    /\ (last.op = "fetch_precompiled_remote_versions" /\ FreshBefore)
          => last.ok /\ last.val = last.before.precompiled_cache.value
    /\ (last.op = "fetch_precompiled_remote_versions" /\ ~last.ok)
          => precompiled_cache = last.before.precompiled_cache

\* C8: a non-empty catalog is read again at a later time inside the window.
C8_Witness ==
    /\ last.op = "fetch_precompiled_remote_versions"
    /\ FreshBefore
    /\ last.before.clock > last.before.precompiled_cache.at
    /\ Len(last.val) >= 2

\* The path get_virtualenv resolves the option to.
ResolvedVirtualenv ==
    LET p == replace_path(last.tv.virtualenv[1])
    IN  IF is_absolute(p) \/ last.config.project_root = None THEN p
        ELSE last.config.project_root[1] \o p

VenvMissingNoAutoCreate ==
    /\ last.tv.virtualenv # None
    /\ ResolvedVirtualenv \notin last.before.venvs
    /\ ~settings.python_venv_auto_create

\* C9: with the virtualenv option set, the path missing and auto-creation off,
\* get_virtualenv (its settings read) returns Ok(None) after the guidance and
\* never runs python -m venv; no directory appears.
C9_NoAutoCreateNoVenv ==
    (last.op = "get_virtualenv" /\ VenvMissingNoAutoCreate
        /\ "Settings::try_get" \notin last.failed)
        => /\ last.ok /\ last.val = None
           /\ Has(last.log, "warn: no venv found")
           /\ ~Has(last.log, "python -m venv")
           /\ venvs = last.before.venvs

\* C9: a relative path anchored to the project root is missing.
C9_Witness ==
    /\ last.op = "get_virtualenv" /\ VenvMissingNoAutoCreate
    /\ last.ok /\ last.val = None
    /\ ResolvedVirtualenv = <<"/", "proj", ".venv">>
    /\ last.before.venvs # {}

\* C10: exec_env succeeds; its mapping is exactly VIRTUAL_ENV = the resolved
\* path and MISE_ADD_PATH = its bin directory when a virtualenv resolves (the
\* path exists, or auto-creation is on and nothing fails), and empty when there
\* is no virtualenv option or the path is missing with auto-creation off.
C10_ExecEnvMapping ==
    (last.op = "exec_env")
        => /\ last.ok
           /\ last.tv.virtualenv = None => last.val = {}
           /\ last.tv.virtualenv # None =>
                /\ VenvMissingNoAutoCreate => last.val = {}
                /\ (last.failed = {} /\ ~VenvMissingNoAutoCreate) =>
                      last.val = { <<"VIRTUAL_ENV", ResolvedVirtualenv>>,
                                   <<"MISE_ADD_PATH", ResolvedVirtualenv \o <<"bin">>>> }
                /\ last.failed # {} => last.val = {}

\* C10: a virtualenv given with ~ resolves after being created.
C10_Witness ==
    /\ last.op = "exec_env"
    /\ Cardinality(last.val) = 2
    /\ Has(last.log, "python -m venv")
    /\ <<"MISE_ADD_PATH", <<"/", "home", "venv", "bin">>>> \in last.val

ReachedPatches ==
    /\ Installed /\ last.strategy = "SourceBuild" /\ last.tv.request = "Version"
    /\ last.failed \cap {"create_dir_all", "git clone", "git update", "timeout",
                          "HTTP.get_text patch"} = {}

PatchFileMissing ==
    /\ ReachedPatches
    /\ env.patches_dir # None
    /\ last.tv.version \notin env.patches_dir[1]

\* C11: a source-build install that comes to a patch directory without
\* <version>.patch warns and still runs the build utility, with no patch read
\* from the directory; the missing file is no error: the install fails only
\* with the error of a step that failed.
C11_MissingPatchFileIsWarning ==
    PatchFileMissing
        => /\ Has(last.log, "warn: patch file not found")
           /\ Has(last.log, "python-build")
           /\ ~Has(last.log, "read_to_string patch")
           /\ last.cmd # None /\ last.cmd[1].stdin # Some("patch from file")
           /\ last.failed = {} => last.ok
           /\ ~last.ok => last.err \in last.failed

\* C11: the directory is set, the file is missing, a patch URL is set as well
\* and the install succeeds.
C11_Witness ==
    /\ PatchFileMissing
    /\ env.patch_url # None
    /\ Has(last.log, "warn: patch file not found")
    /\ last.ok

SourceListing == last.op = "list_remote_versions" /\ last.strategy = "SourceBuild"

\* The listing went on to the build utility's working copy.
FellThrough == Has(last.log, "create_dir_all") \/ Has(last.log, "git update")

\* C12: a source-build listing asks the host's shortcut list first.  A list
\* received is returned as it is and nothing else is done; a failed or empty
\* answer leads on to the build utility, and is no error of the call; a failed
\* clone or definitions query is the error of the call.
C12_ShortcutThenBuildUtility ==
    SourceListing
        => /\ Has(last.log, "fetch_remote_versions_from_mise")
           /\ "fetch_remote_versions_from_mise" \in last.failed
                 => /\ Has(last.log, "warn: failed to fetch remote versions")
                    /\ FellThrough
           /\ ("fetch_remote_versions_from_mise" \notin last.failed /\ ~FellThrough)
                 => /\ last.ok /\ last.val = ShortcutVersions
                    /\ last.log = <<"strategy", "fetch_remote_versions_from_mise">>
           /\ (FellThrough /\ last.failed \subseteq {"fetch_remote_versions_from_mise"})
                 => /\ last.ok /\ last.raw # None
                    /\ last.val = sorted_by_cached_key(last.raw[1])
           /\ last.failed \cap {"create_dir_all", "git clone", "python-build --definitions"} # {}
                 => /\ ~last.ok
                    /\ last.err \in {"create_dir_all", "git clone", "python-build --definitions"}

\* C12: the shortcut fetch failed and the listing came from the build utility.
C12_Witness ==
    /\ SourceListing
    /\ "fetch_remote_versions_from_mise" \in last.failed
    /\ last.ok /\ Len(last.val) >= 2
    /\ Has(last.log, "git clone")

Validated ==
    /\ Installed
    /\ Has(last.log, "python --version")
    /\ "python --version" \notin last.failed

\* C13: an install that passed the smoke test and reports success has run the
\* virtualenv resolution (seen by its read of the settings, when the option is
\* set) and the default-package bootstrap (seen by its pip run, when the
\* packages file exists), after the smoke test.
C13_PostInstallUnderEitherStrategy ==
    (Validated /\ last.ok)
        => /\ last.tv.virtualenv # None
                 => \E i, j \in 1..Len(last.log) :
                       /\ i < j
                       /\ last.log[i] = "python --version"
                       /\ last.log[j] = "Settings::try_get"
           /\ env.default_packages_file
                 => \E i, j \in 1..Len(last.log) :
                       /\ i < j
                       /\ last.log[i] = "python --version"
                       /\ last.log[j] = "pip install"

StrategySteps ==
    {"download_file", "untar", "remove_all", "rename", "make_symlink", "python-build"}

PostInstallSteps ==
    {"warn: please enable experimental mode", "info: setting up virtualenv",
     "python -m venv", "warn: no venv found", "warn: failed to get virtualenv",
     "pip install"}

\* C14: in the record of an install, every strategy step lies before the smoke
\* test and none of them failed when the smoke test runs, the smoke test runs
\* after the last strategy step (the relink, or the build), and a post-install
\* step lies after a smoke test that succeeded.
C14_StrategyThenTestThenPostInstall ==
    Installed
        => \A i \in 1..Len(last.log) :
              /\ last.log[i] = "python --version"
                    => /\ \A j \in 1..Len(last.log) :
                             last.log[j] \in StrategySteps => j < i
                       /\ StrategySteps \cap last.failed = {}
                       /\ \E j \in 1..(i - 1) : last.log[j] \in {"make_symlink", "python-build"}
              /\ last.log[i] \in PostInstallSteps
                    => /\ "python --version" \notin last.failed
                       /\ \E j \in 1..(i - 1) : last.log[j] = "python --version"

\* C14: a source build went through the virtualenv creation and the
\* default-package install.
C14_Witness ==
    /\ Installed /\ last.ok
    /\ Has(last.log, "python-build")
    /\ Has(last.log, "python -m venv")
    /\ Has(last.log, "pip install")

HardSteps == StrategySteps \cup {"python --version"}

\* C15: when a strategy step or the smoke test fails, the install returns that
\* step's error and the failed step is the last thing it did; when no artifact
\* matches, it returns that error with no step run; and no step is run twice.
C15_HardFailureIsTerminal ==
    Installed
        => /\ HardSteps \cap last.failed # {}
                 => /\ ~last.ok
                    /\ last.err \in HardSteps \cap last.failed
                    /\ last.log[Len(last.log)] = last.err
           /\ "no precompiled version found" \in last.failed
                 => /\ ~last.ok
                    /\ last.err = "no precompiled version found"
                    /\ \A i \in 1..Len(last.log) : last.log[i] \notin HardSteps
           /\ \A i, j \in 1..Len(last.log) :
                 (last.log[i] \in HardSteps /\ last.log[i] = last.log[j]) => i = j

\* C15: the rename failed, after the old install was removed.
C15_Witness ==
    /\ Installed
    /\ "rename" \in last.failed
    /\ ~last.ok
    /\ install = InstallAbsent

PrecompiledInstall == Installed /\ last.strategy = "Precompiled"

\* C17: a precompiled install removes the install path only after a
\* successful download and extraction of a selected artifact; when the catalog
\* fetch, the selection, the download or the extraction fails, the install
\* path is as it was.
C17_InstallPathKeptUntilExtracted ==
    PrecompiledInstall
        => /\ last.failed \cap {"HTTP_FETCH.get_text", "no precompiled version found",
                                 "download_file", "untar"} # {}
                 => /\ ~last.ok
                    /\ install = last.before.install
                    /\ ~Has(last.log, "remove_all")
           /\ install # last.before.install
                 => /\ last.url # None
                    /\ Has(last.log, "download_file") /\ Has(last.log, "untar")
                    /\ {"download_file", "untar"} \cap last.failed = {}

\* C17: an old install is still there after the extraction failed.
C17_Witness ==
    /\ PrecompiledInstall
    /\ "untar" \in last.failed
    /\ last.before.install = InstallOld
    /\ install = InstallOld

\* C18: a precompiled install, however it ends, neither clones nor updates the
\* working copy of the build utility, nor runs it.
C18_PrecompiledLeavesBuildUtility ==
    PrecompiledInstall
        => /\ pyenv = last.before.pyenv
           /\ \A i \in 1..Len(last.log) :
                 last.log[i] \notin {"create_dir_all", "git clone", "git update",
                                     "python-build", "python-build --definitions"}

\* C18: a precompiled install succeeded with the working copy absent.
C18_Witness ==
    /\ PrecompiledInstall /\ last.ok
    /\ last.before.pyenv = "absent"
    /\ install.kind = "precompiled"

\* C19: exec_env returns Ok; when get_virtualenv failed (the settings read, or
\* the creation of the virtualenv), it has logged a warning and its mapping is
\* empty.
C19_ExecEnvNeverFails ==
    (last.op = "exec_env")
        => /\ last.ok /\ last.err = ""
           /\ last.failed # {}
                 => /\ last.failed \subseteq {"Settings::try_get", "python -m venv"}
                    /\ Has(last.log, "warn: failed to get virtualenv")
                    /\ last.val = {}

\* C19: the creation of the virtualenv failed.
C19_Witness ==
    /\ last.op = "exec_env"
    /\ "python -m venv" \in last.failed
    /\ last.ok /\ last.val = {}

\* C20: the build utility is run with the patch flag at most once, and with
\* the text of at most one patch on its standard input.
C20_AtMostOnePatch ==
    (Installed /\ Has(last.log, "python-build"))
        => /\ last.cmd # None
           /\ Cardinality({ i \in 1..Len(last.cmd[1].args) :
                               last.cmd[1].args[i] = "--patch" }) <= 1
           /\ last.cmd[1].stdin \in {None, Some("patch from url"), Some("patch from file")}

ReadOk(p) == readers.of[p].pc = "done" /\ readers.of[p].ok

\* C16: the catalog computation is entered by one reader at a time; of the
\* readers that got the catalog of one freshness window (one time stamp) at
\* most one made the network request, and all of them got the same list; and
\* the cache and every reader hold only catalogs that were written completely.
C16_MemoizedUnderConcurrency ==
    /\ \A p, q \in Readers :
          (p # q /\ readers.of[p].pc \in {"computing", "fetched"})
              => readers.of[q].pc \notin {"computing", "fetched"}
    /\ \A p, q \in Readers :
          (p # q /\ ReadOk(p) /\ ReadOk(q) /\ readers.of[p].at = readers.of[q].at)
              => /\ readers.of[p].val = readers.of[q].val
                 /\ ~(readers.of[p].requested /\ readers.of[q].requested)
    /\ \A p \in Readers : ReadOk(p) => readers.of[p].val \in readers.stored
    /\ precompiled_cache.present => precompiled_cache.value \in readers.stored

\* C16: two readers got the same catalog of two entries at a later time; one
\* of them fetched it, the other did not.
C16_Witness ==
    /\ ReadOk("r1") /\ ReadOk("r2")
    /\ readers.of["r1"].at = readers.of["r2"].at
    /\ readers.of["r1"].at > 0
    /\ readers.of["r1"].requested /\ ~readers.of["r2"].requested
    /\ Len(readers.of["r2"].val) >= 2

====
